---- MODULE Spec2Model ----
(***************************************************************************)
(* The on-chain counter program of rust-solana (src/src/lib.rs): the       *)
(* 5-byte Counter codec and the process_instruction state machine over one *)
(* account buffer.                                                         *)
(***************************************************************************)
EXTENDS Integers, Sequences, FiniteSets, TLC

VARIABLES
    data,          \* the counter account's byte buffer (AccountInfo.data)
    owner,         \* the counter account's owner (AccountInfo.owner)
    pre_data,      \* the buffer as it was when the last invocation started
    instruction,   \* instruction_data of the last invocation
    nacc,          \* length of the account list of the last invocation
    result,        \* ProgramResult of the last invocation
    steps,         \* number of invocations so far
    streak,        \* Increments applied in a row since the buffer held {true, 0}
    inits,         \* number of Initialize invocations that returned Ok
    net,           \* since the last Ok Initialize: Ok Increments minus Ok Decrements
    scen,          \* how many steps of the client's scenario have been run, -1 when off it
    cs,            \* codec: the Counter value handed to pack_into_slice
    cbuf,          \* codec: the slice written by pack_into_slice / read by unpack_from_slice
    cout,          \* codec: the Result of the last unpack_from_slice
    cpc            \* codec: position of the codec exercise

progVars == <<data, owner, pre_data, instruction, nacc, result, steps, streak, inits, net, scen>>
codecVars == <<cs, cbuf, cout, cpc>>
vars ==
    <<data, owner, pre_data, instruction, nacc, result, steps, streak, inits, net, scen,
      cs, cbuf, cout, cpc>>

----------------------------------------------------------------------------
(* Bounds *)

MaxSteps == 4
MaxLen == 6

(* Sample values *)

FlagSamples == {0, 1, 2}
CountByteSamples == {0, 255}
OpcodeSamples == {0, 1, 2, 3, 255}
HalfSamples == {0, 1, 255, 256, 513, 65534, 65535}
AccountCounts == {0, 1}

InitBuffers ==
    UNION { { b \in [1..n -> FlagSamples \cup CountByteSamples] :
                \A i \in 1..n : IF i = 1 THEN b[i] \in FlagSamples
                                         ELSE b[i] \in CountByteSamples } : n \in 0..MaxLen }

Payloads ==
    {<<>>} \cup { <<b>> : b \in OpcodeSamples } \cup { <<b, 0>> : b \in OpcodeSamples }

ProgramId == "EnKfzEUyaAxGSmFbhD4yezLZ7tXMoQRPcNYVg2Xxi2Cj"
SystemProgramId == "11111111111111111111111111111111"

----------------------------------------------------------------------------
(* Result<T, ProgramError> *)

Ok(v) == [ok |-> TRUE, val |-> v, err |-> "none"]
Err(e) == [ok |-> FALSE, val |-> <<>>, err |-> e]

(* A u32 is kept as its two 16-bit halves, value = hi * 2^16 + lo, so that  *)
(* the whole 32-bit range is represented exactly.                          *)
Half == 65536

u32(n) == [hi |-> n \div Half, lo |-> n % Half]

U32Max == [hi |-> Half - 1, lo |-> Half - 1]

(* u32::from_le_bytes / u32::to_le_bytes *)
from_le_bytes(b) == [hi |-> b[3] + 256 * b[4], lo |-> b[1] + 256 * b[2]]

(* mutant: the bytes come out most significant first *)
to_le_bytes_be(n) == << n.hi \div 256, n.hi % 256, n.lo \div 256, n.lo % 256 >>

to_le_bytes(n) == << n.lo % 256, n.lo \div 256, n.hi % 256, n.hi \div 256 >>

(* mutant: the carry out of the low half is dropped *)
checked_add_no_carry(a, b) ==
    LET lo == a.lo + b.lo
        hi == a.hi + b.hi
    IN  IF hi + (lo \div Half) >= Half THEN Err("None") ELSE Ok([hi |-> hi, lo |-> lo % Half])

(* mutant: wrapping_add, the sum is taken modulo 2^32 and is never None *)
checked_add_wrapping(a, b) ==
    LET lo == a.lo + b.lo
        hi == a.hi + b.hi + (lo \div Half)
    IN  Ok([hi |-> hi % Half, lo |-> lo % Half])

(* mutant: the borrow is not taken from the high half *)
checked_sub_no_borrow(a, b) ==
    LET borrow == IF a.lo < b.lo THEN 1 ELSE 0
        lo == a.lo - b.lo + borrow * Half
        hi == a.hi - b.hi
    IN  IF hi - borrow < 0 THEN Err("None") ELSE Ok([hi |-> hi, lo |-> lo])

(* u32::checked_add / u32::checked_sub: None when the result leaves 0..2^32-1 *)
checked_add(a, b) ==
    LET lo == a.lo + b.lo
        hi == a.hi + b.hi + (lo \div Half)
    IN  IF hi >= Half THEN Err("None") ELSE Ok([hi |-> hi, lo |-> lo % Half])

checked_sub(a, b) ==
    LET borrow == IF a.lo < b.lo THEN 1 ELSE 0
        lo == a.lo - b.lo + borrow * Half
        hi == a.hi - b.hi - borrow
    IN  IF hi < 0 THEN Err("None") ELSE Ok([hi |-> hi, lo |-> lo])

----------------------------------------------------------------------------
(* impl Pack for Counter *)

LEN == 5

(* mutant: only a slice that is too short is refused *)
unpack_from_slice_short(src) ==
    IF Len(src) < LEN
    THEN Err("InvalidAccountData")
    ELSE Ok([is_initialized |-> src[1] # 0,
             count |-> from_le_bytes(<<src[2], src[3], src[4], src[5]>>)])

(* mutant: only the byte 1 counts as an initialized flag *)
unpack_from_slice_flag1(src) ==
    IF Len(src) # LEN
    THEN Err("InvalidAccountData")
    ELSE Ok([is_initialized |-> src[1] = 1,
             count |-> from_le_bytes(<<src[2], src[3], src[4], src[5]>>)])

unpack_from_slice(src) ==
    IF Len(src) # LEN
    THEN Err("InvalidAccountData")
    ELSE Ok([is_initialized |-> src[1] # 0,
             count |-> from_le_bytes(<<src[2], src[3], src[4], src[5]>>)])

(* mutant: only the count bytes are written, byte 0 is left as found *)
pack_into_slice_keep_flag(self, dst) ==
    LET count_bytes == to_le_bytes(self.count) IN
    [i \in 1..Len(dst) |->
        IF i = 1 THEN dst[i]
        ELSE IF i <= 5 THEN count_bytes[i - 1]
        ELSE dst[i]]

(* dst[0] = flag; dst[1..5].copy_from_slice(bytes).  Requires Len(dst) >= 5 *)
pack_into_slice(self, dst) ==
    LET count_bytes == to_le_bytes(self.count) IN
    [i \in 1..Len(dst) |->
        IF i = 1 THEN (IF self.is_initialized THEN 1 ELSE 0)
        ELSE IF i <= 5 THEN count_bytes[i - 1]
        ELSE dst[i]]

is_initialized(self) == self.is_initialized

(* Provided methods of the Pack trait the program calls *)
unpack_unchecked(input) ==
    IF Len(input) # LEN
    THEN Err("InvalidAccountData")
    ELSE unpack_from_slice(input)

(* mutant: the initialization flag of the decoded value is not looked at *)
unpack_skip_flag(input) ==
    LET value == unpack_unchecked(input) IN
    value

unpack(input) ==
    LET value == unpack_unchecked(input) IN
    IF ~value.ok THEN value
    ELSE IF is_initialized(value.val) THEN value
    ELSE Err("UninitializedAccount")

pack(src, dst) ==
    IF Len(dst) # LEN
    THEN Err("InvalidAccountData")
    ELSE Ok(pack_into_slice(src, dst))

----------------------------------------------------------------------------
(* Instruction processor *)

(* mutant: the last arm of the match is a catch-all *)
unpack_instruction_data_default(instruction_data) ==
    IF instruction_data = <<>>
    THEN Err("InvalidInstructionData")
    ELSE CASE instruction_data[1] = 0 -> Ok("Initialize")
           [] instruction_data[1] = 1 -> Ok("Increment")
           [] OTHER -> Ok("Decrement")

unpack_instruction_data(instruction_data) ==
    IF instruction_data = <<>>
    THEN Err("InvalidInstructionData")
    ELSE CASE instruction_data[1] = 0 -> Ok("Initialize")
           [] instruction_data[1] = 1 -> Ok("Increment")
           [] instruction_data[1] = 2 -> Ok("Decrement")
           [] OTHER -> Err("InvalidInstructionData")

next_account_info(accounts) ==
    IF accounts = <<>> THEN Err("NotEnoughAccountKeys") ELSE Ok(Head(accounts))

(* What a handler returns: the ProgramResult and the account list with the *)
(* buffer of the first account as the handler left it.                     *)
Failed(e, accounts) == [res |-> e, accounts |-> accounts]
Stored(buf, accounts) ==
    [res |-> "Ok", accounts |-> [accounts EXCEPT ![1].data = buf]]

(* mutant: the already-initialized check is missing *)
process_initialize_reset(program_id, accounts) ==
    LET next == next_account_info(accounts) IN
    IF ~next.ok THEN Failed(next.err, accounts)
    ELSE LET counter_account == next.val IN
         IF counter_account.owner # program_id
         THEN Failed("IncorrectProgramId", accounts)
         ELSE LET unpacked == unpack_unchecked(counter_account.data) IN
              IF ~unpacked.ok THEN Failed(unpacked.err, accounts)
              ELSE LET counter_info == [is_initialized |-> TRUE, count |-> u32(0)]
                       packed == pack(counter_info, counter_account.data)
                   IN  IF ~packed.ok THEN Failed(packed.err, accounts)
                       ELSE Stored(packed.val, accounts)

(* mutant: the owner is compared after the decode and the flag check *)
process_initialize_late_owner(program_id, accounts) ==
    LET next == next_account_info(accounts) IN
    IF ~next.ok THEN Failed(next.err, accounts)
    ELSE LET counter_account == next.val
             unpacked == unpack_unchecked(counter_account.data)
         IN  IF ~unpacked.ok THEN Failed(unpacked.err, accounts)
             ELSE IF unpacked.val.is_initialized
             THEN Failed("AccountAlreadyInitialized", accounts)
             ELSE IF counter_account.owner # program_id
             THEN Failed("IncorrectProgramId", accounts)
             ELSE LET counter_info == [is_initialized |-> TRUE, count |-> u32(0)]
                      packed == pack(counter_info, counter_account.data)
                  IN  IF ~packed.ok THEN Failed(packed.err, accounts)
                      ELSE Stored(packed.val, accounts)

(* mutant: the flag is read from whatever bytes there are, the length is   *)
(* left to Counter::pack                                                    *)
process_initialize_tolerant(program_id, accounts) ==
    LET next == next_account_info(accounts) IN
    IF ~next.ok THEN Failed(next.err, accounts)
    ELSE LET counter_account == next.val IN
         IF counter_account.owner # program_id
         THEN Failed("IncorrectProgramId", accounts)
         ELSE IF (IF Len(counter_account.data) = 0 THEN FALSE
                  ELSE counter_account.data[1] # 0)
              THEN Failed("AccountAlreadyInitialized", accounts)
              ELSE LET counter_info == [is_initialized |-> TRUE, count |-> u32(0)]
                       packed == pack(counter_info, counter_account.data)
                   IN  IF ~packed.ok THEN Failed(packed.err, accounts)
                       ELSE Stored(packed.val, accounts)

(* mutant: the count found in the buffer is kept instead of being reset *)
process_initialize_keep_count(program_id, accounts) ==
    LET next == next_account_info(accounts) IN
    IF ~next.ok THEN Failed(next.err, accounts)
    ELSE LET counter_account == next.val IN
         IF counter_account.owner # program_id
         THEN Failed("IncorrectProgramId", accounts)
         ELSE LET unpacked == unpack_unchecked(counter_account.data) IN
              IF ~unpacked.ok THEN Failed(unpacked.err, accounts)
              ELSE IF unpacked.val.is_initialized
              THEN Failed("AccountAlreadyInitialized", accounts)
              ELSE LET counter_info == [unpacked.val EXCEPT !.is_initialized = TRUE]
                       packed == pack(counter_info, counter_account.data)
                   IN  IF ~packed.ok THEN Failed(packed.err, accounts)
                       ELSE Stored(packed.val, accounts)

process_initialize(program_id, accounts) ==
    LET next == next_account_info(accounts) IN
    IF ~next.ok THEN Failed(next.err, accounts)
    ELSE LET counter_account == next.val IN
         IF counter_account.owner # program_id
         THEN Failed("IncorrectProgramId", accounts)
         ELSE LET unpacked == unpack_unchecked(counter_account.data) IN
              IF ~unpacked.ok THEN Failed(unpacked.err, accounts)
              ELSE IF unpacked.val.is_initialized
              THEN Failed("AccountAlreadyInitialized", accounts)
              ELSE LET counter_info == [is_initialized |-> TRUE, count |-> u32(0)]
                       packed == pack(counter_info, counter_account.data)
                   IN  IF ~packed.ok THEN Failed(packed.err, accounts)
                       ELSE Stored(packed.val, accounts)

(* mutant: the count is advanced with wrapping_add *)
process_increment_wrapping(program_id, accounts) ==
    LET next == next_account_info(accounts) IN
    IF ~next.ok THEN Failed(next.err, accounts)
    ELSE LET counter_account == next.val IN
         IF counter_account.owner # program_id
         THEN Failed("IncorrectProgramId", accounts)
         ELSE LET unpacked == unpack(counter_account.data) IN
              IF ~unpacked.ok THEN Failed(unpacked.err, accounts)
              ELSE LET sum == checked_add_wrapping(unpacked.val.count, u32(1))
                       counter_info == [unpacked.val EXCEPT !.count = sum.val]
                       packed == pack(counter_info, counter_account.data)
                   IN  IF ~packed.ok THEN Failed(packed.err, accounts)
                       ELSE Stored(packed.val, accounts)

(* mutant: the overflow is reported as a custom error code *)
process_increment_custom_error(program_id, accounts) ==
    LET next == next_account_info(accounts) IN
    IF ~next.ok THEN Failed(next.err, accounts)
    ELSE LET counter_account == next.val IN
         IF counter_account.owner # program_id
         THEN Failed("IncorrectProgramId", accounts)
         ELSE LET unpacked == unpack(counter_account.data) IN
              IF ~unpacked.ok THEN Failed(unpacked.err, accounts)
              ELSE LET sum == checked_add(unpacked.val.count, u32(1)) IN
                   IF ~sum.ok THEN Failed("Custom(0)", accounts)
                   ELSE LET counter_info == [unpacked.val EXCEPT !.count = sum.val]
                            packed == pack(counter_info, counter_account.data)
                        IN  IF ~packed.ok THEN Failed(packed.err, accounts)
                            ELSE Stored(packed.val, accounts)

(* mutant: the buffer is decoded before the owner is compared *)
process_increment_late_owner(program_id, accounts) ==
    LET next == next_account_info(accounts) IN
    IF ~next.ok THEN Failed(next.err, accounts)
    ELSE LET counter_account == next.val
             unpacked == unpack(counter_account.data)
         IN  IF ~unpacked.ok THEN Failed(unpacked.err, accounts)
             ELSE IF counter_account.owner # program_id
             THEN Failed("IncorrectProgramId", accounts)
             ELSE LET sum == checked_add(unpacked.val.count, u32(1)) IN
                  IF ~sum.ok THEN Failed("ArithmeticOverflow", accounts)
                  ELSE LET counter_info == [unpacked.val EXCEPT !.count = sum.val]
                           packed == pack(counter_info, counter_account.data)
                       IN  IF ~packed.ok THEN Failed(packed.err, accounts)
                           ELSE Stored(packed.val, accounts)

process_increment(program_id, accounts) ==
    LET next == next_account_info(accounts) IN
    IF ~next.ok THEN Failed(next.err, accounts)
    ELSE LET counter_account == next.val IN
         IF counter_account.owner # program_id
         THEN Failed("IncorrectProgramId", accounts)
         ELSE LET unpacked == unpack(counter_account.data) IN
              IF ~unpacked.ok THEN Failed(unpacked.err, accounts)
              ELSE LET sum == checked_add(unpacked.val.count, u32(1)) IN
                   IF ~sum.ok THEN Failed("ArithmeticOverflow", accounts)
                   ELSE LET counter_info == [unpacked.val EXCEPT !.count = sum.val]
                            packed == pack(counter_info, counter_account.data)
                        IN  IF ~packed.ok THEN Failed(packed.err, accounts)
                            ELSE Stored(packed.val, accounts)

(* mutant: the body of process_increment pasted, the addition left in *)
process_decrement_copy_paste(program_id, accounts) ==
    LET next == next_account_info(accounts) IN
    IF ~next.ok THEN Failed(next.err, accounts)
    ELSE LET counter_account == next.val IN
         IF counter_account.owner # program_id
         THEN Failed("IncorrectProgramId", accounts)
         ELSE LET unpacked == unpack(counter_account.data) IN
              IF ~unpacked.ok THEN Failed(unpacked.err, accounts)
              ELSE IF unpacked.val.count = u32(0)
              THEN Failed("InvalidArgument", accounts)
              ELSE LET diff == checked_add(unpacked.val.count, u32(1)) IN
                   IF ~diff.ok THEN Failed("ArithmeticOverflow", accounts)
                   ELSE LET counter_info == [unpacked.val EXCEPT !.count = diff.val]
                            packed == pack(counter_info, counter_account.data)
                        IN  IF ~packed.ok THEN Failed(packed.err, accounts)
                            ELSE Stored(packed.val, accounts)

(* mutant: the buffer is decoded without the initialization check *)
process_decrement_unchecked(program_id, accounts) ==
    LET next == next_account_info(accounts) IN
    IF ~next.ok THEN Failed(next.err, accounts)
    ELSE LET counter_account == next.val IN
         IF counter_account.owner # program_id
         THEN Failed("IncorrectProgramId", accounts)
         ELSE LET unpacked == unpack_unchecked(counter_account.data) IN
              IF ~unpacked.ok THEN Failed(unpacked.err, accounts)
              ELSE IF unpacked.val.count = u32(0)
              THEN Failed("InvalidArgument", accounts)
              ELSE LET diff == checked_sub(unpacked.val.count, u32(1)) IN
                   IF ~diff.ok THEN Failed("ArithmeticOverflow", accounts)
                   ELSE LET counter_info == [unpacked.val EXCEPT !.count = diff.val]
                            packed == pack(counter_info, counter_account.data)
                        IN  IF ~packed.ok THEN Failed(packed.err, accounts)
                            ELSE Stored(packed.val, accounts)

(* mutant: the decoded state is written back before the zero check *)
process_decrement_write_first(program_id, accounts) ==
    LET next == next_account_info(accounts) IN
    IF ~next.ok THEN Failed(next.err, accounts)
    ELSE LET counter_account == next.val IN
         IF counter_account.owner # program_id
         THEN Failed("IncorrectProgramId", accounts)
         ELSE LET unpacked == unpack(counter_account.data) IN
              IF ~unpacked.ok THEN Failed(unpacked.err, accounts)
              ELSE IF unpacked.val.count = u32(0)
              THEN [res |-> "InvalidArgument",
                    accounts |-> Stored(pack_into_slice(unpacked.val, counter_account.data),
                                        accounts).accounts]
              ELSE LET diff == checked_sub(unpacked.val.count, u32(1)) IN
                   IF ~diff.ok THEN Failed("ArithmeticOverflow", accounts)
                   ELSE LET counter_info == [unpacked.val EXCEPT !.count = diff.val]
                            packed == pack(counter_info, counter_account.data)
                        IN  IF ~packed.ok THEN Failed(packed.err, accounts)
                            ELSE Stored(packed.val, accounts)

process_decrement(program_id, accounts) ==
    LET next == next_account_info(accounts) IN
    IF ~next.ok THEN Failed(next.err, accounts)
    ELSE LET counter_account == next.val IN
         IF counter_account.owner # program_id
         THEN Failed("IncorrectProgramId", accounts)
         ELSE LET unpacked == unpack(counter_account.data) IN
              IF ~unpacked.ok THEN Failed(unpacked.err, accounts)
              ELSE IF unpacked.val.count = u32(0)
              THEN Failed("InvalidArgument", accounts)
              ELSE LET diff == checked_sub(unpacked.val.count, u32(1)) IN
                   IF ~diff.ok THEN Failed("ArithmeticOverflow", accounts)
                   ELSE LET counter_info == [unpacked.val EXCEPT !.count = diff.val]
                            packed == pack(counter_info, counter_account.data)
                        IN  IF ~packed.ok THEN Failed(packed.err, accounts)
                            ELSE Stored(packed.val, accounts)

process_instruction(program_id, accounts, instruction_data) ==
    LET parsed == unpack_instruction_data(instruction_data) IN
    IF ~parsed.ok THEN Failed(parsed.err, accounts)
    ELSE CASE parsed.val = "Initialize" -> process_initialize(program_id, accounts)
           [] parsed.val = "Increment" -> process_increment(program_id, accounts)
           [] parsed.val = "Decrement" -> process_decrement(program_id, accounts)

----------------------------------------------------------------------------
(* The program under invocation by the runtime *)

HoldsTrueZero(buf) ==
    /\ Len(buf) = LEN
    /\ buf[1] # 0
    /\ from_le_bytes(<<buf[2], buf[3], buf[4], buf[5]>>) = u32(0)

NoCounter == [is_initialized |-> FALSE, count |-> u32(0)]

(* The client's run: create_account (zeroed, LEN bytes, owned by the        *)
(* program), then the payloads [0], [1], [1], [2], each with one account.   *)
Scenario == << <<0>>, <<1>>, <<1>>, <<2>> >>

CreatedAccount == [i \in 1..LEN |-> 0]

Init ==
    /\ data \in InitBuffers
    /\ owner \in {ProgramId, SystemProgramId}
    /\ pre_data = data
    /\ instruction = <<>>
    /\ nacc = 0
    /\ result = "none"
    /\ steps = 0
    /\ streak = IF HoldsTrueZero(data) THEN 0 ELSE -1
    /\ inits = 0
    /\ net = 0
    /\ scen = IF data = CreatedAccount /\ owner = ProgramId THEN 0 ELSE -1
    /\ cs = NoCounter
    /\ cbuf = <<>>
    /\ cout = Err("none")
    /\ cpc = "idle"

(* One transaction instruction executed by the runtime against the account *)
Invoke(instruction_data, n) ==
    /\ steps < MaxSteps
    /\ LET accounts == [i \in 1..n |-> [owner |-> owner, data |-> data]]
           r == process_instruction(ProgramId, accounts, instruction_data)
           after == IF n = 0 THEN data ELSE r.accounts[1].data
       IN  /\ data' = after
           /\ result' = r.res
           /\ streak' = IF /\ unpack_instruction_data(instruction_data) = Ok("Increment")
                           /\ n > 0
                           /\ owner = ProgramId
                           /\ streak >= 0
                        THEN streak + 1
                        ELSE IF HoldsTrueZero(after) THEN 0 ELSE -1
           /\ inits' = IF r.res = "Ok" /\ instruction_data[1] = 0 THEN inits + 1 ELSE inits
           /\ net' = IF r.res # "Ok" \/ inits = 0 THEN (IF r.res = "Ok" THEN 0 ELSE net)
                      ELSE CASE instruction_data[1] = 0 -> 0
                             [] instruction_data[1] = 1 -> net + 1
                             [] instruction_data[1] = 2 -> net - 1
    /\ pre_data' = data
    /\ instruction' = instruction_data
    /\ nacc' = n
    /\ steps' = steps + 1
    /\ scen' = IF scen >= 0 /\ scen < Len(Scenario) /\ n = 1
               THEN (IF instruction_data = Scenario[scen + 1] THEN scen + 1 ELSE -1)
               ELSE -1
    /\ UNCHANGED <<owner, cs, cbuf, cout, cpc>>

InvokeInitialize ==
    \E d \in { p \in Payloads : IF p = <<>> THEN FALSE ELSE p[1] = 0 }, n \in AccountCounts :
        Invoke(d, n)

InvokeIncrement ==
    \E d \in { p \in Payloads : IF p = <<>> THEN FALSE ELSE p[1] = 1 }, n \in AccountCounts :
        Invoke(d, n)

InvokeDecrement ==
    \E d \in { p \in Payloads : IF p = <<>> THEN FALSE ELSE p[1] = 2 }, n \in AccountCounts :
        Invoke(d, n)

InvokeInvalid ==
    \E d \in { p \in Payloads : IF p = <<>> THEN TRUE ELSE p[1] > 2 }, n \in AccountCounts :
        Invoke(d, n)

Next == InvokeInitialize \/ InvokeIncrement \/ InvokeDecrement \/ InvokeInvalid

Spec == Init /\ [][Next]_vars

----------------------------------------------------------------------------
(* The codec on its own: pack_into_slice and unpack_from_slice on any slice *)

CodecInit ==
    /\ cs \in [is_initialized : BOOLEAN, count : [hi : HalfSamples, lo : HalfSamples]]
    /\ cbuf \in InitBuffers
    /\ cout = Err("none")
    /\ cpc = "start"
    /\ data = <<>>
    /\ owner = ProgramId
    /\ pre_data = <<>>
    /\ instruction = <<>>
    /\ nacc = 0
    /\ result = "none"
    /\ steps = 0
    /\ streak = -1
    /\ inits = 0
    /\ net = 0
    /\ scen = -1

(* dst[0] is written before dst[1..5] is sliced: a slice shorter than 5    *)
(* panics, after the first byte was stored when there is one.              *)
PackIntoSlice ==
    /\ cpc = "start"
    /\ IF Len(cbuf) >= LEN
       THEN /\ cbuf' = pack_into_slice(cs, cbuf)
            /\ cpc' = "packed"
       ELSE /\ cbuf' = [i \in 1..Len(cbuf) |->
                          IF i = 1 THEN (IF cs.is_initialized THEN 1 ELSE 0) ELSE cbuf[i]]
            /\ cpc' = "panicked"
    /\ UNCHANGED <<cs, cout>>
    /\ UNCHANGED progVars

UnpackFromSlice ==
    /\ cpc \in {"start", "packed"}
    /\ cout' = unpack_from_slice(cbuf)
    /\ cpc' = IF cpc = "packed" THEN "roundtrip" ELSE "decoded"
    /\ UNCHANGED <<cs, cbuf>>
    /\ UNCHANGED progVars

CodecNext == PackIntoSlice \/ UnpackFromSlice

CodecSpec == CodecInit /\ [][CodecNext]_vars

----------------------------------------------------------------------------
(* Vocabulary of the properties: what the last invocation was, and what a   *)
(* buffer holds, read straight from the account format (byte 0 the flag,    *)
(* bytes 1-4 the count, little-endian).                                     *)

Called == result # "none"
Opcode == IF instruction = <<>> THEN -1 ELSE instruction[1]
OnOwnedAccount == Called /\ nacc > 0 /\ owner = ProgramId
OnForeignAccount == Called /\ nacc > 0 /\ owner # ProgramId

Flag(buf) == buf[1] # 0
LowHalf(buf) == buf[2] + 256 * buf[3]
HighHalf(buf) == buf[4] + 256 * buf[5]
IsZero(buf) == LowHalf(buf) = 0 /\ HighHalf(buf) = 0
IsU32Max(buf) == LowHalf(buf) = 65535 /\ HighHalf(buf) = 65535
HoldsTrue(buf) == Len(buf) = 5 /\ Flag(buf)

(* the count of b is the count of a plus one *)
IsSucc(a, b) ==
    \/ LowHalf(a) < 65535 /\ LowHalf(b) = LowHalf(a) + 1 /\ HighHalf(b) = HighHalf(a)
    \/ LowHalf(a) = 65535 /\ LowHalf(b) = 0 /\ HighHalf(b) = HighHalf(a) + 1

Unchanged == data = pre_data

----------------------------------------------------------------------------
(* C1: round trip -- decoding the 5 bytes that encoding a Counter state s   *)
(* produced gives back s, for either flag and any count of the u32 range.   *)
C1_RoundTrip ==
    (cpc = "roundtrip" /\ Len(cbuf) = 5)
        => (cout.ok /\ cout.val = cs)

C1_Witness ==
    /\ cpc = "roundtrip"
    /\ Len(cbuf) = 5
    /\ cs = [is_initialized |-> TRUE, count |-> [hi |-> 513, lo |-> 256]]
    /\ cbuf = <<1, 0, 1, 1, 2>>
    /\ cout.ok

(* C2: decoding a buffer whose length is not 5 fails with                   *)
(* InvalidAccountData, and so Increment or Decrement on a program-owned     *)
(* account with such a buffer fails with InvalidAccountData and leaves the  *)
(* buffer as it was.                                                        *)
C2_WrongLengthRejected ==
    /\ Len(pre_data) # 5 => unpack_from_slice(pre_data) = Err("InvalidAccountData")
    /\ (OnOwnedAccount /\ Opcode \in {1, 2} /\ Len(pre_data) # 5)
          => (result = "InvalidAccountData" /\ Unchanged)

C2_Witness ==
    /\ OnOwnedAccount
    /\ Opcode = 1
    /\ Len(pre_data) = 6
    /\ pre_data[1] = 1
    /\ result = "InvalidAccountData"

(* C3: Initialize on a program-owned 5-byte buffer whose byte 0 is 0        *)
(* succeeds and leaves {is_initialized: true, count: 0}, whatever bytes 1-4 *)
(* held; the zeroed buffer is one such case.                                *)
C3_InitializeFresh ==
    (OnOwnedAccount /\ Opcode = 0 /\ Len(pre_data) = 5 /\ ~Flag(pre_data))
        => (result = "Ok" /\ data = <<1, 0, 0, 0, 0>>)

C3_Witness ==
    /\ OnOwnedAccount
    /\ Opcode = 0
    /\ pre_data = <<0, 0, 0, 0, 0>>
    /\ result = "Ok"
    /\ data = <<1, 0, 0, 0, 0>>

(* C4: Initialize on a program-owned buffer that already holds              *)
(* {is_initialized: true, count: n} fails with AccountAlreadyInitialized    *)
(* and leaves the buffer byte for byte as it was.                           *)
C4_ReinitializeRejected ==
    (OnOwnedAccount /\ Opcode = 0 /\ HoldsTrue(pre_data))
        => (result = "AccountAlreadyInitialized" /\ Unchanged)

C4_Witness ==
    /\ OnOwnedAccount
    /\ Opcode = 0
    /\ HoldsTrue(pre_data)
    /\ ~IsZero(pre_data)
    /\ result = "AccountAlreadyInitialized"

(* C5: Increment on a program-owned {true, n}, n < 2^32-1, succeeds and     *)
(* leaves {true, n+1}; k Increments in a row from {true, 0} leave {true, k}.*)
C5_IncrementAddsOne ==
    /\ (OnOwnedAccount /\ Opcode = 1 /\ HoldsTrue(pre_data) /\ ~IsU32Max(pre_data))
          => (result = "Ok" /\ HoldsTrue(data) /\ IsSucc(pre_data, data))
    /\ streak >= 0
          => (HoldsTrue(data) /\ LowHalf(data) = streak /\ HighHalf(data) = 0)

C5_Witness ==
    /\ OnOwnedAccount
    /\ Opcode = 1
    /\ streak = 3
    /\ result = "Ok"
    /\ data = <<1, 3, 0, 0, 0>>

(* C6: Increment on a program-owned {true, 4294967295} fails with           *)
(* ArithmeticOverflow and leaves the buffer as it was: no wrap to 0.        *)
C6_IncrementOverflow ==
    (OnOwnedAccount /\ Opcode = 1 /\ HoldsTrue(pre_data) /\ IsU32Max(pre_data))
        => (result = "ArithmeticOverflow" /\ Unchanged)

C6_Witness ==
    /\ OnOwnedAccount
    /\ Opcode = 1
    /\ pre_data = <<1, 255, 255, 255, 255>>
    /\ result = "ArithmeticOverflow"

(* C7: Decrement on a program-owned {true, 0} fails with InvalidArgument    *)
(* and leaves the buffer as it was; on {true, n}, n > 0, it succeeds and    *)
(* leaves {true, n-1}.                                                      *)
C7_Decrement ==
    /\ (OnOwnedAccount /\ Opcode = 2 /\ HoldsTrue(pre_data) /\ IsZero(pre_data))
          => (result = "InvalidArgument" /\ Unchanged)
    /\ (OnOwnedAccount /\ Opcode = 2 /\ HoldsTrue(pre_data) /\ ~IsZero(pre_data))
          => (result = "Ok" /\ HoldsTrue(data) /\ IsSucc(data, pre_data))

C7_Witness ==
    /\ OnOwnedAccount
    /\ Opcode = 2
    /\ pre_data = <<1, 0, 0, 0, 0>>
    /\ result = "InvalidArgument"
    /\ steps > 1

(* C8: an empty payload, or one whose first byte is 3 or more, fails with   *)
(* InvalidInstructionData and leaves the buffer as it was, for every        *)
(* account list, owner and buffer.                                          *)
C8_InvalidInstruction ==
    (Called /\ (Opcode = -1 \/ Opcode >= 3))
        => (result = "InvalidInstructionData" /\ Unchanged)

C8_Witness ==
    /\ Called
    /\ Opcode = 3
    /\ nacc > 0
    /\ owner = ProgramId
    /\ HoldsTrue(pre_data)
    /\ result = "InvalidInstructionData"

(* C9: Initialize, Increment or Decrement against an account whose owner is *)
(* not the executing program fails with IncorrectProgramId, whatever the    *)
(* buffer holds (any length, flag, count), and leaves the buffer as it was. *)
C9_ForeignOwnerRejected ==
    (OnForeignAccount /\ Opcode \in {0, 1, 2})
        => (result = "IncorrectProgramId" /\ Unchanged)

C9_Witness ==
    /\ OnForeignAccount
    /\ Opcode = 1
    /\ Len(pre_data) = 4
    /\ result = "IncorrectProgramId"

(* C10: whenever an invocation returns an error, of any kind, the buffer    *)
(* after the call is byte for byte the buffer before the call.              *)
C10_ErrorLeavesBuffer ==
    (Called /\ result # "Ok") => Unchanged

C10_Witness ==
    /\ Called
    /\ result = "InvalidArgument"
    /\ Opcode = 2
    /\ pre_data = <<2, 0, 0, 0, 0>>
    /\ Unchanged

(* C11: from the account as created (zeroed, 5 bytes, owned by the         *)
(* program) Initialize, Increment, Increment, Decrement each succeed and    *)
(* leave {true, 1}; and once an Initialize has succeeded the stored count   *)
(* is the number of successful Increments minus successful Decrements.      *)
C11_ScenarioAndNetCount ==
    /\ scen >= 1 => result = "Ok"
    /\ scen = 4 => data = <<1, 1, 0, 0, 0>>
    /\ inits >= 1 => (HoldsTrue(data) /\ HighHalf(data) = 0 /\ LowHalf(data) = net)

C11_Witness ==
    /\ scen = 4
    /\ inits = 1
    /\ net = 1
    /\ result = "Ok"
    /\ data = <<1, 1, 0, 0, 0>>

(* C12 as stated: Increment on a program-owned {false, n}, n < 2^32-1, is   *)
(* accepted and the incremented state is stored.                            *)
C12_Original ==
    (OnOwnedAccount /\ Opcode = 1 /\ Len(pre_data) = 5 /\ ~Flag(pre_data)
        /\ ~IsU32Max(pre_data))
        => (result = "Ok" /\ IsSucc(pre_data, data))

(* C12 (amended): Increment requires is_initialized -- on a program-owned   *)
(* 5-byte buffer that decodes to {false, n} it fails with                   *)
(* UninitializedAccount and leaves the buffer as it was, for every n.       *)
C12_IncrementNeedsInitialized ==
    (OnOwnedAccount /\ Opcode = 1 /\ Len(pre_data) = 5 /\ ~Flag(pre_data))
        => (result = "UninitializedAccount" /\ Unchanged)

C12_Witness ==
    /\ OnOwnedAccount
    /\ Opcode = 1
    /\ pre_data = <<0, 255, 0, 0, 0>>
    /\ result = "UninitializedAccount"
    /\ Unchanged

(* C13: Initialize succeeds only on a stored flag that is false, Increment  *)
(* and Decrement only on one that is true; on an uninitialized buffer       *)
(* (byte 0 = 0, the zeroed one included) every Increment and Decrement is   *)
(* rejected and the buffer is left as it was.                               *)
C13_InitializationOrdering ==
    /\ (Called /\ result = "Ok" /\ Opcode = 0) => (Len(pre_data) = 5 /\ ~Flag(pre_data))
    /\ (Called /\ result = "Ok" /\ Opcode \in {1, 2}) => HoldsTrue(pre_data)
    /\ (Called /\ Opcode \in {1, 2} /\ Len(pre_data) = 5 /\ ~Flag(pre_data))
          => (result # "Ok" /\ Unchanged)

C13_Witness ==
    /\ OnOwnedAccount
    /\ Opcode = 2
    /\ pre_data = <<0, 0, 0, 0, 255>>
    /\ result # "Ok"
    /\ Unchanged

(* C14: the stored count always lies in 0..2^32-1 (four bytes, each in     *)
(* 0..255), and no successful transition wraps: an Ok Increment raises the  *)
(* count by exactly 1 and never starts from 2^32-1, an Ok Decrement lowers  *)
(* it by exactly 1 and never starts from 0.                                 *)
C14_NoWrap ==
    /\ \A i \in 1..Len(data) : data[i] \in 0..255
    /\ (Called /\ result = "Ok" /\ Opcode = 1)
          => (~IsU32Max(pre_data) /\ IsSucc(pre_data, data))
    /\ (Called /\ result = "Ok" /\ Opcode = 2)
          => (~IsZero(pre_data) /\ IsSucc(data, pre_data))

C14_Witness ==
    /\ Called
    /\ result = "Ok"
    /\ Opcode = 1
    /\ pre_data = <<1, 254, 255, 255, 255>>
    /\ data = <<1, 255, 255, 255, 255>>

(* C15 as stated: Initialize on a program-owned buffer whose length is not  *)
(* 5 is not rejected for the length before the flag is inspected (a set     *)
(* flag gives AccountAlreadyInitialized), while Increment and Decrement on  *)
(* such a buffer are rejected with InvalidAccountData.                      *)
C15_Original ==
    /\ (OnOwnedAccount /\ Opcode = 0 /\ Len(pre_data) \notin {0, 5} /\ Flag(pre_data))
          => result = "AccountAlreadyInitialized"
    /\ (OnOwnedAccount /\ Opcode \in {1, 2} /\ Len(pre_data) # 5)
          => result = "InvalidAccountData"

(* C15 (amended): the decode of Initialize checks the length too -- on a    *)
(* program-owned buffer whose length is not 5 Initialize fails with         *)
(* InvalidAccountData before the flag is inspected, as Increment and        *)
(* Decrement do; the buffer is left as it was.                              *)
C15_InitializeChecksLength ==
    (OnOwnedAccount /\ Opcode \in {0, 1, 2} /\ Len(pre_data) # 5)
        => (result = "InvalidAccountData" /\ Unchanged)

C15_Witness ==
    /\ OnOwnedAccount
    /\ Opcode = 0
    /\ pre_data = <<1, 0, 0, 0>>
    /\ result = "InvalidAccountData"
    /\ Unchanged

(* C16 as stated: every error returned is one of the six kinds of the       *)
(* taxonomy, for every payload, account list, owner and buffer.             *)
C16_Original ==
    (Called /\ result # "Ok")
        => result \in {"InvalidAccountData", "InvalidInstructionData", "IncorrectProgramId",
                       "AccountAlreadyInitialized", "InvalidArgument", "ArithmeticOverflow"}

(* C16 (amended): every error returned is one of eight kinds -- the six of  *)
(* the taxonomy, NotEnoughAccountKeys (a valid opcode with an empty account *)
(* list) and UninitializedAccount (Increment or Decrement on a buffer whose *)
(* flag is clear).                                                          *)
C16_ErrorKinds ==
    (Called /\ result # "Ok")
        => result \in {"InvalidAccountData", "InvalidInstructionData", "IncorrectProgramId",
                       "AccountAlreadyInitialized", "InvalidArgument", "ArithmeticOverflow",
                       "NotEnoughAccountKeys", "UninitializedAccount"}

C16_Witness ==
    /\ Called
    /\ Opcode = 0
    /\ nacc = 0
    /\ result = "NotEnoughAccountKeys"

(* C17: after every successful transition the buffer is exactly 5 bytes,   *)
(* byte 0 is 0x01 and bytes 1-4 are the little-endian bytes of the new      *)
(* count; a buffer whose byte 0 is another nonzero value (0x02) counts as   *)
(* initialized, and a successful Increment or Decrement rewrites it to 0x01.*)
C17_CanonicalWrite ==
    /\ (Called /\ result = "Ok")
          => /\ Len(data) = 5
             /\ data[1] = 1
             /\ \A i \in 2..5 : data[i] \in 0..255
             /\ Opcode = 0 => IsZero(data)
             /\ Opcode = 1 => IsSucc(pre_data, data)
             /\ Opcode = 2 => IsSucc(data, pre_data)
    /\ (OnOwnedAccount /\ Opcode \in {1, 2} /\ Len(pre_data) = 5 /\ pre_data[1] > 1)
          => /\ result \in {"Ok", "ArithmeticOverflow", "InvalidArgument"}
             /\ result = "Ok" => data[1] = 1

C17_Witness ==
    /\ OnOwnedAccount
    /\ Opcode = 1
    /\ pre_data = <<2, 255, 0, 0, 0>>
    /\ result = "Ok"
    /\ data = <<1, 0, 1, 0, 0>>

(* C18: initialization is permanent -- once an Initialize has succeeded on  *)
(* the account, whatever is invoked afterwards the buffer keeps decoding to *)
(* is_initialized = true, and Initialize does not succeed a second time.    *)
C18_InitializedForGood ==
    /\ inits <= 1
    /\ inits = 1 => HoldsTrue(data)

C18_Witness ==
    /\ inits = 1
    /\ steps > 1
    /\ OnOwnedAccount
    /\ Opcode = 0
    /\ result = "AccountAlreadyInitialized"
    /\ HoldsTrue(data)

(* C19: the checks run in the order payload opcode, account extraction,     *)
(* ownership, buffer decode (length, then the flag), arithmetic             *)
(* precondition; the result of an invocation is that of the first check     *)
(* that fails, so a bad payload gives InvalidInstructionData even with no   *)
(* account or a foreign owner, and a foreign owner gives IncorrectProgramId *)
(* even on a buffer that would fail a later check.                          *)
C19_FirstFailingCheck ==
    IF Opcode \notin {0, 1, 2} THEN "InvalidInstructionData"
    ELSE IF nacc = 0 THEN "NotEnoughAccountKeys"
    ELSE IF owner # ProgramId THEN "IncorrectProgramId"
    ELSE IF Len(pre_data) # 5 THEN "InvalidAccountData"
    ELSE IF Opcode = 0 THEN (IF Flag(pre_data) THEN "AccountAlreadyInitialized" ELSE "Ok")
    ELSE IF ~Flag(pre_data) THEN "UninitializedAccount"
    ELSE IF Opcode = 1 THEN (IF IsU32Max(pre_data) THEN "ArithmeticOverflow" ELSE "Ok")
    ELSE IF IsZero(pre_data) THEN "InvalidArgument" ELSE "Ok"

C19_OrderOfChecks ==
    Called => result = C19_FirstFailingCheck

C19_Witness ==
    /\ OnForeignAccount
    /\ Opcode = 0
    /\ pre_data = <<1, 255, 255, 255, 255>>
    /\ result = "IncorrectProgramId"
    /\ steps > 1

====
